---- MODULE Spec2Model ----
(***************************************************************************)
(* MinHash near-duplicate detection (src/src/main.cpp): the tokenizer      *)
(* TokenGen, the n-gram feature extractor, the MinHasher signature and     *)
(* distance functions and the all-pairs loop of Deduplicator::process.     *)
(*                                                                         *)
(* Numbers.  TLC's integers are 32-bit signed, so every C++ unsigned       *)
(* integer wider than 31 bits (size_t, uint64_t, uint32_t) is a            *)
(* little-endian sequence of base-256 digits of the type's width, and      *)
(* arithmetic on it wraps at that width exactly as the C++ type does.      *)
(* double values are exact rationals [n |-> _, d |-> _] or NaN.            *)
(***************************************************************************)
EXTENDS Integers, Sequences, FiniteSets, TLC

\* ------------------------------------------------------------------ bounds
MaxLen == 3        \* longest single document, in bytes
MaxDocs == 3       \* largest corpus of sample documents
MaxNgrams == 2     \* largest ngrams
MaxHashes == 2     \* largest num_hashes

\* --------------------------------------------------------------- constants
kHashPrime == 2038074743
DefaultSeed == 1
Npos == -1         \* string_view::npos
Base == 256        \* values of one unsigned char
Bytes64 == 8       \* sizeof(size_t), sizeof(1ULL)
Bytes32 == 4       \* sizeof(uint32_t)
Separator == 95    \* '_'
WideBytes == 2 * Bytes64   \* wide enough to hold any 64 x 64 bit result exactly

\* ----------------------------------------------------- unsigned arithmetic
RECURSIVE Digits(_, _)
\* The w-digit little-endian representation of the natural n (mod 256^w).
Digits(n, w) ==
  IF w = 0 THEN <<>> ELSE <<n % Base>> \o Digits(n \div Base, w - 1)

\* Widening (or truncating) conversion between unsigned types.
Resize(x, w) ==
  [k \in 1..w |-> IF k <= Len(x) THEN x[k] ELSE 0]

RECURSIVE U31Value(_)
\* The value of a digit sequence known to be below 2^31.
U31Value(x) ==
  IF x = <<>> THEN 0 ELSE x[1] + Base * U31Value(Tail(x))

RECURSIVE AddCarry(_, _, _, _)
AddCarry(x, y, k, c) ==
  IF k > Len(x) THEN <<>>
  ELSE LET s == x[k] + y[k] + c
       IN <<s % Base>> \o AddCarry(x, y, k + 1, s \div Base)

\* x + y in the width of x (both of one width), wrapping.
UAdd(x, y) == AddCarry(x, y, 1, 0)

RECURSIVE ColumnSum(_, _, _, _)
ColumnSum(x, y, k, i) ==
  IF i > k THEN 0 ELSE x[i] * y[k + 1 - i] + ColumnSum(x, y, k, i + 1)

RECURSIVE MulCarry(_, _, _, _)
MulCarry(x, y, k, c) ==
  IF k > Len(x) THEN <<>>
  ELSE LET s == ColumnSum(x, y, k, 1) + c
       IN <<s % Base>> \o MulCarry(x, y, k + 1, s \div Base)

\* x * y in the width of x (both of one width), wrapping.
UMul(x, y) == MulCarry(x, y, 1, 0)

RECURSIVE ULess(_, _)
\* x < y for two numbers of one width.
ULess(x, y) ==
  IF x = <<>> THEN FALSE
  ELSE LET n == Len(x)
       IN IF x[n] # y[n] THEN x[n] < y[n]
          ELSE ULess(SubSeq(x, 1, n - 1), SubSeq(y, 1, n - 1))

\* (x + y) mod m for x, y < m < 2^31, without leaving 31 bits.
AddMod(x, y, m) == IF x >= m - y THEN x - (m - y) ELSE x + y

RECURSIVE MulMod(_, _, _)
\* (x * y) mod m for x < m < 2^31 and a natural y.
MulMod(x, y, m) ==
  IF x = 0 \/ y = 0 THEN 0
  ELSE LET h == MulMod(AddMod(x, x, m), y \div 2, m)
       IN IF y % 2 = 1 THEN AddMod(h, x, m) ELSE h

RECURSIVE UMod(_, _)
\* x mod m for an unsigned x of any width and 0 < m < 2^31.
UMod(x, m) ==
  IF x = <<>> THEN 0
  ELSE AddMod(MulMod(UMod(Tail(x), m), Base, m), x[1] % m, m)

\* ------------------------------------------------------------------ double
\* A double is an exact rational in lowest terms, or NaN (0/0).  The
\* configurations and signature lengths of the model are small, and the
\* properties compare a distance only with the threshold and with 0 and 1.
NaN == [n |-> 0, d |-> 0]

RECURSIVE Gcd(_, _)
Gcd(x, y) == IF y = 0 THEN x ELSE Gcd(y, x % y)

Abs(x) == IF x < 0 THEN 0 - x ELSE x

Rat(n, d) ==
  IF d = 0 THEN NaN
  ELSE LET g == Gcd(Abs(n), Abs(d)) IN [n |-> n \div g, d |-> d \div g]

IsNaN(x) == x.d = 0

\* operator< on doubles: false when either side is NaN.
DLess(x, y) == ~IsNaN(x) /\ ~IsNaN(y) /\ x.n * y.d < y.n * x.d

DSub(x, y) ==
  IF IsNaN(x) \/ IsNaN(y) THEN NaN ELSE Rat(x.n * y.d - y.n * x.d, x.d * y.d)

\* static_cast<double>(m) / s for m <= s: 0/0 is NaN.
DDiv(m, s) == Rat(m, s)

One == Rat(1, 1)
Zero == Rat(0, 1)

\* --------------------------------------------------------------- TokenGen
\* isalnum in the "C" locale (the program never calls setlocale).
IsAlnum(c) == c \in (48..57) \cup (65..90) \cup (97..122)

\* The bytes the constructor appends to nonalnum_ (lines 105-109).
NonAlnum == {c \in 0..(Base - 1) : ~IsAlnum(c)}

\* sv.find_first_of(del): the 0-based position of the first byte of sv that
\* is in del, or npos.
FindFirstOf(sv, del) ==
  LET hits == {k \in 1..Len(sv) : sv[k] \in del}
  IN IF hits = {} THEN Npos
     ELSE (CHOOSE k \in hits : \A m \in hits : k <= m) - 1

\* ScanOnce with sv_.remove_prefix(it) for sv_.remove_prefix(it + 1): the
\* delimiter found stays at the front of the remaining text.
ScanOnceKeepDelimiter(sv, del) ==
  LET it == FindFirstOf(sv, del)
  IN IF it = Npos
     THEN [r |-> sv, sv |-> <<>>]
     ELSE [r |-> SubSeq(sv, 1, it), sv |-> SubSeq(sv, it + 1, Len(sv))]

\* One iteration of the while (true) loop of TokenGen::operator(): the
\* candidate token r and the remaining text.
ScanOnce(sv, del) ==
  LET it == FindFirstOf(sv, del)
  IN IF it = Npos
     THEN [r |-> sv, sv |-> <<>>]
     ELSE [r |-> SubSeq(sv, 1, it), sv |-> SubSeq(sv, it + 2, Len(sv))]

\* ------------------------------------------------------- extract_features
\* The stand-in for MurmurHash3_x86_32(key, len, seed, &out), whose source
\* (include/MurmurHash3.h) is not part of src/: a deterministic 32-bit hash
\* of the bytes and the seed, a multiply-and-add over uint32_t.
RECURSIVE HashBytes(_, _)
HashBytes(key, h) ==
  IF key = <<>> THEN h
  ELSE HashBytes(Tail(key),
                 UAdd(UMul(h, Digits(16777619, Bytes32)), Digits(key[1], Bytes32)))

MurmurHash3_x86_32(key, seed) == HashBytes(key, Digits(seed, Bytes32))

RECURSIVE Combined(_)
\* combined += w; combined += "_" for every w of the window, in order.
Combined(window) ==
  IF window = <<>> THEN <<>>
  ELSE window[1] \o <<Separator>> \o Combined(Tail(window))

\* h % num_features_, a size_t (num_features_ # 0).
FeatureIndex(window, num_features) ==
  Digits(UMod(Resize(MurmurHash3_x86_32(Combined(window), 0), Bytes64), num_features),
         Bytes64)

\* window after emplace_back(token) and the pop_front of line 147.
Slide(window, token, ngrams) ==
  LET w == Append(window, token)
  IN IF Len(w) > ngrams THEN Tail(w) ELSE w

\* -------------------------------------------------------------- MinHasher
\* std::mt19937 and std::uniform_int_distribution are library code.  They are
\* modelled by what the program relies on: the stream of draws is a function
\* of the seed alone, the draws are taken in program order from one
\* generator, and every draw lies in the closed range of its distribution.
RECURSIVE RngDraw(_, _)
\* The n-th output (n >= 1) of the generator seeded with seed.
RngDraw(seed, n) ==
  IF n = 0 THEN seed % 2147483647
  ELSE MulMod(RngDraw(seed, n - 1), 48271, 2147483647)

UniformInt(lo, hi, x) == lo + (x % (hi - lo + 1))

\* a_[i] = dist_a_(rng_); b_[i] = dist_b_(rng_); for i = 0 .. num_hashes-1.
FamilyA(num_hashes, seed) ==
  [k \in 1..num_hashes |-> UniformInt(1, kHashPrime - 1, RngDraw(seed, 2 * k - 1))]

FamilyB(num_hashes, seed) ==
  [k \in 1..num_hashes |-> UniformInt(0, kHashPrime - 1, RngDraw(seed, 2 * k))]

\* (1ULL + idx) * a + b in unsigned arithmetic of w bytes.
Intermediate(idx, a, b, w) ==
  UAdd(UMul(UAdd(Digits(1, w), Resize(idx, w)), Digits(a, w)), Digits(b, w))

\* SlotHash with the cast applied to the sum instead of the remainder:
\* static_cast<uint32_t>((1ULL + idx) * a + b) % kHashPrime.
SlotHashCastFirst(idx, a, b) ==
  U31Value(Resize(Digits(UMod(Resize(Intermediate(idx, a, b, Bytes64), Bytes32),
                              kHashPrime), Bytes64),
                  Bytes32))

\* static_cast<uint32_t>(((1ULL + idx) * a + b) % kHashPrime), line 72.
SlotHash(idx, a, b) ==
  U31Value(Resize(Digits(UMod(Intermediate(idx, a, b, Bytes64), kHashPrime), Bytes64),
                  Bytes32))

Min(x, y) == IF y < x THEN y ELSE x

\* InnerLoop with sig[i] = hash for sig[i] = min(sig[i], hash).
InnerLoopNoMin(sig, idx, a, b) ==
  [k \in 1..Len(a) |-> SlotHash(idx, a[k], b[k])]

\* The inner loop of compute_signature for one feature index:
\* sig[i] = min(sig[i], hash) for i = 0 .. num_hashes-1.
InnerLoop(sig, idx, a, b) ==
  [k \in 1..Len(a) |-> Min(sig[k], SlotHash(idx, a[k], b[k]))]

RECURSIVE SignatureLoop(_, _, _, _)
\* The outer loop of compute_signature over the features in the order the
\* unordered_set yields them.
SignatureLoop(order, a, b, sig) ==
  IF order = <<>> THEN sig
  ELSE SignatureLoop(Tail(order), a, b, InnerLoop(sig, order[1], a, b))

compute_signature(order, a, b, num_hashes) ==
  SignatureLoop(order, a, b, [k \in 1..num_hashes |-> kHashPrime])

RECURSIVE MatchesButLast(_, _, _)
\* Matches with the loop bound i < a.size() - 1: the last position is not
\* compared.
MatchesButLast(a, b, k) ==
  IF k >= Len(a) THEN 0
  ELSE (IF a[k] = b[k] THEN 1 ELSE 0) + MatchesButLast(a, b, k + 1)

RECURSIVE Matches(_, _, _)
\* The loop of jaccard_distance from position k on.
Matches(a, b, k) ==
  IF k > Len(a) THEN 0
  ELSE (IF a[k] = b[k] THEN 1 ELSE 0) + Matches(a, b, k + 1)

\* jaccard_distance without the 1.0 -: the similarity.
jaccard_similarity(a, b) == DDiv(Matches(a, b, 1), Len(a))

jaccard_distance(a, b) == DSub(One, DDiv(Matches(a, b, 1), Len(a)))

\* The orders in which a set can be iterated.
RECURSIVE Orders(_)
Orders(S) ==
  IF S = {} THEN {<<>>}
  ELSE UNION {{<<x>> \o o : o \in Orders(S \ {x})} : x \in S}

\* ------------------------------------------------------------------ state
VARIABLES
  pc,          \* position in main / Deduplicator::process
  cfg,         \* the constructor's arguments (ngrams, num_hashes, threshold, num_features)
  docs,        \* the corpus: a sequence of texts, each a sequence of bytes
  a_, b_,      \* MinHasher::a_, MinHasher::b_
  nonalnum_,   \* Deduplicator::nonalnum_, as the set of its bytes
  doc,         \* number of documents whose signature has been stored
  sv_,         \* TokenGen::sv_, the text not yet consumed
  token,       \* the token the last call of splitter() returned
  window,      \* extract_features: window
  indices,     \* extract_features: indices (size_t values)
  signatures,  \* process: signatures
  i, j,        \* process: the loop variables of the pair loops
  dist,        \* process: dist of the pair evaluated last
  reports,     \* the duplicate pairs written to cout, in order
  yielded,     \* history: the tokens splitter() returned for this document
  hashed,      \* history: the windows hashed for this document
  calls,       \* history: calls of splitter() for this document
  iters,       \* history: iterations of the loop of the current call
  svAtCall,    \* history: sv_ when the current call began
  compared,    \* history: the pairs evaluated, with their distance
  featuresets  \* history: what extract_features returned, per document

vars ==
  <<pc, cfg, docs, a_, b_, nonalnum_, doc, sv_, token, window, indices,
    signatures, i, j, dist, reports, yielded, hashed, calls, iters, svAtCall,
    compared, featuresets>>

\* ----------------------------------------------------------------- inputs
\* 'a', 'b', ' ' and '|': two alphanumeric bytes and two delimiters.
Alphabet == {97, 98, 32, 124}

Texts(n) == UNION {[1..k -> Alphabet] : k \in 0..n}

\* Documents of the corpora of several documents: "a b", "b a" and "a".
SampleDocs == {<<97, 32, 98>>, <<98, 32, 97>>, <<97>>}

Corpora ==
  {<<t>> : t \in Texts(MaxLen)} \cup UNION {[1..k -> SampleDocs] : k \in 0..MaxDocs}

Thresholds == {Rat(0, 1), Rat(1, 2), Rat(1, 1)}

NumFeatures == {1, 5}

\* The configurations section 6 of the specification admits.
Configs ==
  [ngrams : 1..MaxNgrams, num_hashes : 1..MaxHashes,
   threshold : Thresholds, num_features : NumFeatures]

Start(c, d) ==
  /\ pc = "construct"
  /\ cfg = c
  /\ docs = d
  /\ a_ = <<>>
  /\ b_ = <<>>
  /\ nonalnum_ = {}
  /\ doc = 0
  /\ sv_ = <<>>
  /\ token = <<>>
  /\ window = <<>>
  /\ indices = {}
  /\ signatures = <<>>
  /\ i = 0
  /\ j = 0
  /\ dist = NaN
  /\ reports = <<>>
  /\ yielded = <<>>
  /\ hashed = <<>>
  /\ calls = 0
  /\ iters = 0
  /\ svAtCall = <<>>
  /\ compared = <<>>
  /\ featuresets = <<>>

Init == \E c \in Configs, d \in Corpora : Start(c, d)

\* ---------------------------------------------------------------- actions
\* Deduplicator::Deduplicator with MinHasher::MinHasher (no argument is
\* checked; hasher_ is built with the default seed).
Construct ==
  /\ pc = "construct"
  /\ a_' = FamilyA(cfg.num_hashes, DefaultSeed)
  /\ b_' = FamilyB(cfg.num_hashes, DefaultSeed)
  /\ nonalnum_' = NonAlnum
  /\ pc' = "docs"
  /\ UNCHANGED <<cfg, docs, doc, sv_, token, window, indices, signatures, i, j,
                 dist, reports, yielded, hashed, calls, iters, svAtCall, compared, featuresets>>

\* process, first loop: the next document enters extract_features.
ExtractBegin ==
  /\ pc = "docs"
  /\ doc < Len(docs)
  /\ window' = <<>>
  /\ indices' = {}
  /\ sv_' = docs[doc + 1]
  /\ yielded' = <<>>
  /\ hashed' = <<>>
  /\ calls' = 0
  /\ pc' = "while"
  /\ UNCHANGED <<cfg, docs, a_, b_, nonalnum_, doc, token, signatures, i, j,
                 dist, reports, iters, svAtCall, compared, featuresets>>

\* while (splitter) is true: splitter() is called.
SplitterCall ==
  /\ pc = "while"
  /\ sv_ # <<>>
  /\ svAtCall' = sv_
  /\ iters' = 0
  /\ calls' = calls + 1
  /\ pc' = "scan"
  /\ UNCHANGED <<cfg, docs, a_, b_, nonalnum_, doc, sv_, token, window, indices,
                 signatures, i, j, dist, reports, yielded, hashed, compared, featuresets>>

\* One iteration of the loop of TokenGen::operator(): it returns r, returns
\* the empty view, or goes round again.
SplitterIter ==
  /\ pc = "scan"
  /\ LET s == ScanOnce(sv_, nonalnum_)
     IN /\ sv_' = s.sv
        /\ IF s.r # <<>> THEN token' = s.r /\ pc' = "push"
           ELSE IF s.sv = <<>> THEN token' = <<>> /\ pc' = "push"
           ELSE token' = token /\ pc' = "scan"
  /\ iters' = iters + 1
  /\ UNCHANGED <<cfg, docs, a_, b_, nonalnum_, doc, window, indices, signatures,
                 i, j, dist, reports, yielded, hashed, calls, svAtCall, compared,
                 featuresets>>

\* The body of the while loop of extract_features after the call.
PushToken ==
  /\ pc = "push"
  /\ LET w == Slide(window, token, cfg.ngrams)
     IN /\ window' = w
        /\ IF Len(w) = cfg.ngrams
           THEN /\ cfg.num_features # 0
                /\ indices' = indices \cup {FeatureIndex(w, cfg.num_features)}
                /\ hashed' = Append(hashed, w)
           ELSE UNCHANGED <<indices, hashed>>
  /\ yielded' = Append(yielded, token)
  /\ pc' = "while"
  /\ UNCHANGED <<cfg, docs, a_, b_, nonalnum_, doc, sv_, token, signatures, i, j,
                 dist, reports, calls, iters, svAtCall, compared, featuresets>>

\* while (splitter) is false: extract_features returns and process stores
\* compute_signature of the result.  The unordered_set is iterated in an
\* order the library chooses.
Sign ==
  /\ pc = "while"
  /\ sv_ = <<>>
  /\ \E order \in Orders(indices) :
       signatures' = Append(signatures, compute_signature(order, a_, b_, cfg.num_hashes))
  /\ featuresets' = Append(featuresets, indices)
  /\ doc' = doc + 1
  /\ pc' = "docs"
  /\ UNCHANGED <<cfg, docs, a_, b_, nonalnum_, sv_, token, window, indices, i, j,
                 dist, reports, yielded, hashed, calls, iters, svAtCall, compared>>

\* The first loop of process is over; the pair loops begin.
PairsBegin ==
  /\ pc = "docs"
  /\ doc = Len(docs)
  /\ i' = 0
  /\ j' = 1
  /\ pc' = "pairs"
  /\ UNCHANGED <<cfg, docs, a_, b_, nonalnum_, doc, sv_, token, window, indices,
                 signatures, dist, reports, yielded, hashed, calls, iters, svAtCall,
                 compared, featuresets>>

\* The body of the inner pair loop for (i, j).
ComparePair ==
  /\ pc = "pairs"
  /\ i < Len(docs)
  /\ j < Len(docs)
  /\ LET d == jaccard_distance(signatures[i + 1], signatures[j + 1])
     IN /\ dist' = d
        /\ compared' = Append(compared, [i |-> i, j |-> j, dist |-> d])
        /\ reports' = IF DLess(d, cfg.threshold)
                      THEN Append(reports, [i |-> i, j |-> j, jaccard |-> DSub(One, d)])
                      ELSE reports
  /\ j' = j + 1
  /\ UNCHANGED <<pc, cfg, docs, a_, b_, nonalnum_, doc, sv_, token, window, indices,
                 signatures, i, yielded, hashed, calls, iters, svAtCall, featuresets>>

\* NextRow with j = i for j = i + 1: every row begins at its own document.
NextRowFromSelf ==
  /\ pc = "pairs"
  /\ i < Len(docs)
  /\ j >= Len(docs)
  /\ i' = i + 1
  /\ j' = i + 1
  /\ UNCHANGED <<pc, cfg, docs, a_, b_, nonalnum_, doc, sv_, token, window, indices,
                 signatures, dist, reports, yielded, hashed, calls, iters, svAtCall,
                 compared, featuresets>>

\* The inner loop ends: ++i, j = i + 1.
NextRow ==
  /\ pc = "pairs"
  /\ i < Len(docs)
  /\ j >= Len(docs)
  /\ i' = i + 1
  /\ j' = i + 2
  /\ UNCHANGED <<pc, cfg, docs, a_, b_, nonalnum_, doc, sv_, token, window, indices,
                 signatures, dist, reports, yielded, hashed, calls, iters, svAtCall,
                 compared, featuresets>>

\* The outer loop ends: process returns.
ProcessEnd ==
  /\ pc = "pairs"
  /\ i >= Len(docs)
  /\ pc' = "done"
  /\ UNCHANGED <<cfg, docs, a_, b_, nonalnum_, doc, sv_, token, window, indices,
                 signatures, i, j, dist, reports, yielded, hashed, calls, iters,
                 svAtCall, compared, featuresets>>

Next ==
  \/ Construct
  \/ ExtractBegin
  \/ SplitterCall
  \/ SplitterIter
  \/ PushToken
  \/ Sign
  \/ PairsBegin
  \/ ComparePair
  \/ NextRow
  \/ ProcessEnd

Spec == Init /\ [][Next]_vars

\* ------------------------------------------------------- reference notions
RECURSIVE RunsFrom(_, _, _)
RunsFrom(text, k, cur) ==
  LET flush == IF cur = <<>> THEN <<>> ELSE <<cur>>
  IN IF k > Len(text) THEN flush
     ELSE IF IsAlnum(text[k]) THEN RunsFrom(text, k + 1, Append(cur, text[k]))
     ELSE flush \o RunsFrom(text, k + 1, <<>>)

\* The tokens of a text as the specification defines them: its maximal runs
\* of alphanumeric bytes, in order.
MaximalRuns(text) == RunsFrom(text, 1, <<>>)

Range(f) == {f[k] : k \in DOMAIN f}

\* extract_features has returned for document number doc, and its locals
\* still hold what they held at the return.
ExtractDone == doc >= 1 /\ pc \in {"docs", "pairs", "done"}

\* A document is inside extract_features.
Extracting == pc \in {"while", "scan", "push"}

\* The text extract_features is working on, or worked on last.
CurrentText ==
  IF Extracting THEN docs[doc + 1] ELSE IF doc >= 1 THEN docs[doc] ELSE <<>>

Sentinel(n) == [k \in 1..n |-> kHashPrime]

IsShort(text) == Len(MaximalRuns(text)) < cfg.ngrams

\* All pairs (x, y) with 0 <= x < y < n in ascending lexicographic order.
RECURSIVE PairsFrom(_, _, _)
PairsFrom(x, y, n) ==
  IF x >= n THEN <<>>
  ELSE IF y >= n THEN PairsFrom(x + 1, x + 2, n)
  ELSE <<(<<x, y>>)>> \o PairsFrom(x, y + 1, n)

LexPairs(n) == PairsFrom(0, 1, n)

Agreements(a, b) == Cardinality({k \in 1..Len(a) : a[k] = b[k]})

\* ((1 + f) * a + b) mod P over the naturals: the arithmetic is done in a
\* width no operand of 64 bits can overflow.
MathHash(f, a, b) == UMod(Intermediate(f, a, b, WideBytes), kHashPrime)

MinOf(S) == CHOOSE x \in S : \A y \in S : x <= y

\* The signature of a feature set as a function of the set alone.
SetSignature(F, a, b, n) ==
  [k \in 1..n |-> IF F = {} THEN kHashPrime
                  ELSE MinOf({MathHash(f, a[k], b[k]) : f \in F})]

\* -------------------------------------------------------------------- C5
\* C5: every token splitter() hands to extract_features is non-empty and
\* free of delimiter bytes, and the tokens handed over for a document are
\* exactly its maximal alphanumeric runs, in order.
C5_TokensAreMaximalRuns ==
  /\ \A k \in 1..Len(yielded) :
       yielded[k] # <<>> /\ \A m \in 1..Len(yielded[k]) : IsAlnum(yielded[k][m])
  /\ ExtractDone => yielded = MaximalRuns(docs[doc])

\* -------------------------------------------------------------------- C4
\* C4: a document with fewer than ngrams tokens (maximal alphanumeric runs)
\* yields the empty FeatureSet and the all-sentinel signature, and two such
\* documents are at distance 0.
C4_ShortDocumentHasNoFeatures ==
  /\ ExtractDone /\ IsShort(docs[doc]) =>
       indices = {} /\ signatures[doc] = Sentinel(cfg.num_hashes)
  /\ \A k \in 1..Len(compared) :
       IsShort(docs[compared[k].i + 1]) /\ IsShort(docs[compared[k].j + 1]) =>
         compared[k].dist = Zero

\* -------------------------------------------------------------------- C9
\* C9: the window never holds more than ngrams tokens once a token has been
\* processed, only windows of exactly ngrams tokens are hashed, a document
\* of T >= ngrams tokens has exactly T - ngrams + 1 windows hashed, the k-th
\* being tokens k .. k+ngrams-1, and every feature index is < num_features.
C9_SlidingWindow ==
  /\ pc \in {"while", "scan"} => Len(window) <= cfg.ngrams
  /\ \A k \in 1..Len(hashed) : Len(hashed[k]) = cfg.ngrams
  /\ \A f \in indices : ULess(f, Digits(cfg.num_features, Bytes64))
  /\ ExtractDone /\ ~IsShort(docs[doc]) =>
       LET runs == MaximalRuns(docs[doc])
       IN hashed = [k \in 1..(Len(runs) - cfg.ngrams + 1) |->
                      SubSeq(runs, k, k + cfg.ngrams - 1)]

\* The parts of C9 that do not count tokens.
C9_WindowBounded ==
  /\ pc \in {"while", "scan"} => Len(window) <= cfg.ngrams
  /\ \A k \in 1..Len(hashed) : Len(hashed[k]) = cfg.ngrams
  /\ \A f \in indices : ULess(f, Digits(cfg.num_features, Bytes64))

\* ------------------------------------------------------------------- C10
\* C10: every call of operator() returns after finitely many iterations (an
\* iteration shortens sv_, so a call makes at most Len(sv_) of them) and a
\* call that returns has shortened the remaining text; the while loop of
\* extract_features makes at most Len(text) calls and is left exactly when
\* the text is used up.
C10_SplitterTerminates ==
  /\ Extracting =>
       /\ Len(sv_) <= Len(CurrentText)
       /\ sv_ = SubSeq(CurrentText, Len(CurrentText) - Len(sv_) + 1, Len(CurrentText))
       /\ calls <= Len(CurrentText)
  /\ pc = "scan" => iters + Len(sv_) <= Len(svAtCall)
  /\ pc = "push" => iters >= 1 /\ Len(sv_) < Len(svAtCall)
  /\ pc \in {"while", "push"} => calls + Len(sv_) <= Len(CurrentText)
  /\ ExtractDone => sv_ = <<>> /\ calls <= Len(docs[doc])

\* Reached: a call of splitter() that went round its loop several times
\* before it returned a token.
C10_Witness == pc = "push" /\ iters >= 2 /\ token # <<>> /\ Len(sv_) < Len(svAtCall)

\* -------------------------------------------------------------------- C1
\* C1: byte-identical documents x < y get the same FeatureSet and the same
\* signature, are at distance exactly 0, and, when threshold > 0, are
\* reported as the pair (x, y) with similarity 1.
C1_ExactDuplicatesReported ==
  \A x, y \in 1..Len(docs) :
    x < y /\ docs[x] = docs[y] =>
      /\ y <= doc => /\ featuresets[x] = featuresets[y]
                     /\ signatures[x] = signatures[y]
      /\ \A k \in 1..Len(compared) :
           compared[k].i = x - 1 /\ compared[k].j = y - 1 => compared[k].dist = Zero
      /\ pc = "done" /\ DLess(Zero, cfg.threshold) =>
           [i |-> x - 1, j |-> y - 1, jaccard |-> One] \in Range(reports)

\* Reached: a corpus with a repeated document with features has been reported.
C1_Witness ==
  /\ pc = "done"
  /\ \E x, y \in 1..Len(docs) :
       /\ x < y
       /\ docs[x] = docs[y]
       /\ featuresets[x] # {}
       /\ [i |-> x - 1, j |-> y - 1, jaccard |-> One] \in Range(reports)

\* -------------------------------------------------------------------- C2
RECURSIVE Below(_, _)
\* The reports a sequence of evaluated pairs gives rise to.
Below(evaluated, threshold) ==
  IF evaluated = <<>> THEN <<>>
  ELSE LET e == evaluated[1]
       IN (IF e.dist.n * threshold.d < threshold.n * e.dist.d
           THEN <<[i |-> e.i, j |-> e.j, jaccard |-> Rat(e.dist.d - e.dist.n, e.dist.d)]>>
           ELSE <<>>) \o Below(Tail(evaluated), threshold)

\* C2: process evaluates every pair (i, j), 0 <= i < j < n, exactly once and
\* in ascending lexicographic order, and reports a pair if and only if its
\* distance is strictly below threshold: never a pair at distance equal to
\* threshold, never a pair with i >= j.
C2_AllPairsOnceInOrder ==
  LET pairs == [k \in 1..Len(compared) |-> <<compared[k].i, compared[k].j>>]
      all == LexPairs(Len(docs))
  IN /\ Len(pairs) <= Len(all)
     /\ pairs = SubSeq(all, 1, Len(pairs))
     /\ pc = "done" => pairs = all
     /\ \A k \in 1..Len(compared) :
          LET a == signatures[compared[k].i + 1]
              b == signatures[compared[k].j + 1]
          IN compared[k].dist = Rat(Len(a) - Agreements(a, b), Len(a))
     /\ reports = Below(compared, cfg.threshold)
     /\ \A k \in 1..Len(reports) : reports[k].i < reports[k].j
     /\ \A k \in 1..Len(compared) :
          compared[k].dist = cfg.threshold =>
            \A m \in 1..Len(reports) :
              <<reports[m].i, reports[m].j>> # <<compared[k].i, compared[k].j>>

\* Reached: three documents, a pair exactly at the threshold that is not
\* reported beside a pair that is.
C2_Witness ==
  /\ pc = "done"
  /\ Len(docs) = 3
  /\ reports # <<>>
  /\ \E k \in 1..Len(compared) :
       /\ compared[k].dist = cfg.threshold
       /\ compared[k].dist # One

\* -------------------------------------------------------------------- C8
RECURSIVE TokenGenCall(_, _)
\* One call of TokenGen::operator() run to its return.
TokenGenCall(sv, del) ==
  LET s == ScanOnce(sv, del)
  IN IF s.r # <<>> \/ s.sv = <<>> THEN s ELSE TokenGenCall(s.sv, del)

RECURSIVE ExtractLoop(_, _, _, _, _, _)
ExtractLoop(sv, win, found, ngrams, num_features, del) ==
  IF sv = <<>> THEN found
  ELSE LET t == TokenGenCall(sv, del)
           w == Slide(win, t.r, ngrams)
       IN ExtractLoop(t.sv, w,
            IF Len(w) = ngrams THEN found \cup {FeatureIndex(w, num_features)} ELSE found,
            ngrams, num_features, del)

\* extract_features as a function of the text and the configuration alone.
extract_features(text, ngrams, num_features, del) ==
  ExtractLoop(text, <<>>, {}, ngrams, num_features, del)

\* The signature of a feature set as a function of the set alone, in the
\* arithmetic of the code.
MinSignature(F, a, b, n) ==
  [k \in 1..n |-> IF F = {} THEN kHashPrime
                  ELSE MinOf({SlotHash(f, a[k], b[k]) : f \in F})]

\* The reports as a function of the signatures and the threshold.
ExpectedReports ==
  LET all == LexPairs(Len(docs))
      evaluated == [k \in 1..Len(all) |->
                      LET a == signatures[all[k][1] + 1]
                          b == signatures[all[k][2] + 1]
                      IN [i |-> all[k][1], j |-> all[k][2],
                          dist |-> Rat(Len(a) - Agreements(a, b), Len(a))]]
  IN Below(evaluated, cfg.threshold)

C8_Functional ==
  /\ pc # "construct" =>
       /\ a_ = FamilyA(cfg.num_hashes, DefaultSeed)
       /\ b_ = FamilyB(cfg.num_hashes, DefaultSeed)
  /\ pc = "docs" =>
       \A x \in 1..doc :
         /\ featuresets[x] =
              extract_features(docs[x], cfg.ngrams, cfg.num_features, NonAlnum)
         /\ signatures[x] = MinSignature(featuresets[x], a_, b_, cfg.num_hashes)
  /\ pc = "done" => reports = ExpectedReports

\* C8: coefficients, signatures and reports are functions of the seed, the
\* configuration and the ordered corpus: the hash family is what the seed
\* gives and no step after construction changes it, the signature of a
\* document depends neither on the order in which its FeatureSet is
\* iterated nor on the documents processed before it, and the reports are
\* determined by the corpus.
C8_Deterministic ==
  /\ []C8_Functional
  /\ [][pc # "construct" => a_' = a_ /\ b_' = b_ /\ nonalnum_' = nonalnum_]_vars

\* Reached: several documents, one with two features or more, and a report.
C8_Witness ==
  /\ pc = "done"
  /\ Len(docs) >= 2
  /\ reports # <<>>
  /\ \E x \in 1..Len(docs) : Cardinality(featuresets[x]) >= 2

\* ------------------------------------------------- compute_signature alone
\* Feature indices below 2^32 (h is a uint32_t): 0, 1, 2^18 - 1 and 2^32 - 1.
SampleFeatures ==
  {Digits(0, Bytes64), Digits(1, Bytes64), Digits(262143, Bytes64),
   <<255, 255, 255, 255, 0, 0, 0, 0>>}

\* Coefficients from the ends and the inside of the ranges of dist_a_, dist_b_.
SampleA == {1, 48272, kHashPrime - 1}
SampleB == {0, kHashPrime - 1}

InitSig ==
  /\ pc = "sig_call"
  /\ \E n \in 1..MaxHashes :
       /\ cfg = [ngrams |-> 1, num_hashes |-> n, threshold |-> One, num_features |-> 1]
       /\ a_ \in [1..n -> SampleA]
       /\ b_ \in [1..n -> SampleB]
  /\ indices \in SUBSET SampleFeatures
  /\ docs = <<>>
  /\ nonalnum_ = NonAlnum
  /\ doc = 0
  /\ sv_ = <<>>
  /\ token = <<>>
  /\ window = <<>>
  /\ signatures = <<>>
  /\ i = 0
  /\ j = 0
  /\ dist = NaN
  /\ reports = <<>>
  /\ yielded = <<>>
  /\ hashed = <<>>
  /\ calls = 0
  /\ iters = 0
  /\ svAtCall = <<>>
  /\ compared = <<>>
  /\ featuresets = <<>>

\* hasher_.compute_signature(indices), iterating the set in some order.
CallComputeSignature ==
  /\ pc = "sig_call"
  /\ \E order \in Orders(indices) :
       signatures' = <<compute_signature(order, a_, b_, cfg.num_hashes)>>
  /\ pc' = "sig_ret"
  /\ UNCHANGED <<cfg, docs, a_, b_, nonalnum_, doc, sv_, token, window, indices, i, j,
                 dist, reports, yielded, hashed, calls, iters, svAtCall, compared,
                 featuresets>>

SpecSig == InitSig /\ [][CallComputeSignature]_vars

\* -------------------------------------------------------------------- C3
\* C3: compute_signature returns num_hashes slots, slot k being the minimum
\* over the features f of ((1 + f) * a_k + b_k) mod P taken over the
\* naturals, and P for the empty set; for f < 2^32 the 64-bit intermediate
\* equals the exact one (it does not wrap); the slots of a non-empty set are
\* in [0, P-1] and survive the cast to uint32_t unchanged.
C3_SignatureIsMinHash ==
  pc = "sig_ret" =>
    LET sig == signatures[1]
    IN /\ Len(sig) = cfg.num_hashes
       /\ sig = SetSignature(indices, a_, b_, cfg.num_hashes)
       /\ indices = {} => sig = Sentinel(cfg.num_hashes)
       /\ \A f \in indices : \A k \in 1..cfg.num_hashes :
            Resize(Intermediate(f, a_[k], b_[k], Bytes64), WideBytes)
              = Intermediate(f, a_[k], b_[k], WideBytes)
       /\ indices # {} =>
            \A k \in 1..cfg.num_hashes :
              /\ sig[k] \in 0..(kHashPrime - 1)
              /\ Resize(Resize(Digits(sig[k], Bytes64), Bytes32), Bytes64)
                   = Digits(sig[k], Bytes64)

\* Reached: the signature of a set holding 2^32 - 1 and another index,
\* under a family with a coefficient a = P - 1.
C3_Witness ==
  /\ pc = "sig_ret"
  /\ <<255, 255, 255, 255, 0, 0, 0, 0>> \in indices
  /\ Cardinality(indices) >= 2
  /\ \E k \in 1..cfg.num_hashes : a_[k] = kHashPrime - 1 /\ b_[k] = kHashPrime - 1

\* -------------------------------------------------- jaccard_distance alone
SigValues == {0, 1, kHashPrime}

InitJac ==
  /\ pc = "jac_call"
  /\ \E n \in 1..MaxHashes :
       /\ cfg = [ngrams |-> 1, num_hashes |-> n, threshold |-> One, num_features |-> 1]
       /\ signatures \in [1..2 -> [1..n -> SigValues]]
  /\ a_ = <<>>
  /\ b_ = <<>>
  /\ indices = {}
  /\ docs = <<>>
  /\ nonalnum_ = NonAlnum
  /\ doc = 0
  /\ sv_ = <<>>
  /\ token = <<>>
  /\ window = <<>>
  /\ i = 0
  /\ j = 1
  /\ dist = NaN
  /\ reports = <<>>
  /\ yielded = <<>>
  /\ hashed = <<>>
  /\ calls = 0
  /\ iters = 0
  /\ svAtCall = <<>>
  /\ compared = <<>>
  /\ featuresets = <<>>

\* MinHasher::jaccard_distance(signatures[i], signatures[j]).
CallJaccardDistance ==
  /\ pc = "jac_call"
  /\ dist' = jaccard_distance(signatures[i + 1], signatures[j + 1])
  /\ pc' = "jac_ret"
  /\ UNCHANGED <<cfg, docs, a_, b_, nonalnum_, doc, sv_, token, window, indices,
                 signatures, i, j, reports, yielded, hashed, calls, iters, svAtCall,
                 compared, featuresets>>

SpecJac == InitJac /\ [][CallJaccardDistance]_vars

\* -------------------------------------------------------------------- C7
\* C7: for two signatures of one length n >= 1 (num_hashes is positive),
\* jaccard_distance is 1 - agreements / n, lies in [0, 1], is 0 exactly when
\* the signatures are equal at every position and 1 exactly when they agree
\* at none.
C7_DistanceIsDisagreementRatio ==
  pc = "jac_ret" =>
    LET a == signatures[1]
        b == signatures[2]
        m == Agreements(a, b)
    IN /\ dist = Rat(Len(a) - m, Len(a))
       /\ ~IsNaN(dist)
       /\ 0 <= dist.n /\ dist.n <= dist.d
       /\ dist = Zero <=> a = b
       /\ dist = One <=> m = 0
       /\ a = b => dist = Zero

\* Reached: two signatures that agree at some positions and differ at others.
C7_Witness ==
  /\ pc = "jac_ret"
  /\ signatures[1][1] = signatures[2][1]
  /\ signatures[1] # signatures[2]
  /\ DLess(Zero, dist) /\ DLess(dist, One)

\* --------------------------------------------------- any constructor call
\* The constructor takes two size_t, a double and a size_t: nothing in its
\* signature keeps a zero or a threshold outside [0, 1] out.
AnyConfigs ==
  [ngrams : 0..1, num_hashes : 0..1,
   threshold : {Rat(0 - 1, 2), Rat(1, 2), Rat(3, 2)}, num_features : 0..1]

InitAny ==
  \E c \in AnyConfigs, d \in UNION {[1..k -> SampleDocs] : k \in 0..MaxDocs} : Start(c, d)

\* h % num_features_ with num_features_ = 0 is undefined: the division
\* traps (x86: SIGFPE), or the remainder is h (AArch64: udiv gives 0).
PushDivideByZero ==
  /\ pc = "push"
  /\ cfg.num_features = 0
  /\ LET w == Slide(window, token, cfg.ngrams)
     IN /\ Len(w) = cfg.ngrams
        /\ window' = w
        /\ \/ /\ pc' = "crashed"
              /\ UNCHANGED <<indices, hashed>>
           \/ /\ pc' = "while"
              /\ indices' = indices \cup {Resize(MurmurHash3_x86_32(Combined(w), 0), Bytes64)}
              /\ hashed' = Append(hashed, w)
  /\ yielded' = Append(yielded, token)
  /\ UNCHANGED <<cfg, docs, a_, b_, nonalnum_, doc, sv_, token, signatures, i, j,
                 dist, reports, calls, iters, svAtCall, compared, featuresets>>

NextAny == Next \/ PushDivideByZero

SpecAny == InitAny /\ [][NextAny]_vars

ValidConfig(c) ==
  /\ c.ngrams >= 1
  /\ c.num_hashes >= 1
  /\ c.num_features >= 1
  /\ ~DLess(c.threshold, Zero)
  /\ ~DLess(One, c.threshold)

\* -------------------------------------------------------------------- C6
\* C6: construction with ngrams = 0, num_hashes = 0, num_features = 0 or a
\* threshold outside [0, 1] fails, so whatever is past construction has a
\* valid configuration and no run takes a modulus by zero, divides by a
\* signature length of zero or compares the window size with ngrams = 0.
C6_InvalidConfigurationRejected ==
  /\ pc # "construct" => ValidConfig(cfg)
  /\ pc # "crashed"
  /\ pc = "push" => cfg.num_features # 0 /\ cfg.ngrams # 0
  /\ \A k \in 1..Len(compared) : ~IsNaN(compared[k].dist)

====
